---- MODULE Spec2Model ----
(***************************************************************************)
(* Model of the model-selection strategies (my_model_selectors.py) and of  *)
(* the recognizer (my_recognizer.py).                                      *)
(*                                                                         *)
(* One run of the model is one call: select() of one of the four selectors *)
(* or recognize().  The fitting/scoring adapter (hmmlearn), the fold       *)
(* splitter (sklearn KFold) and the sequence combiner are the environment: *)
(* every call to them either raises or returns, and a score returns a      *)
(* log-likelihood drawn from Scores.                                       *)
(*                                                                         *)
(* Python floats are modelled as records [inf, val]: inf = -1 is -inf,     *)
(* inf = 1 is +inf and inf = 0 is the finite value val.  Finite values are *)
(* integers; a BIC value is kept in thousandths (ln N is tabulated in      *)
(* thousandths) and a DIC value is kept multiplied by M - 1, which is      *)
(* positive whenever the value exists, so both keep the order of the       *)
(* values the code compares.                                               *)
(***************************************************************************)
EXTENDS Integers, Sequences, FiniteSets, TLC

\* ---------------------------------------------------------------- bounds
MaxStates == 3      \* largest max_n_components tried
MaxFrames == 3      \* largest len(self.X)
MaxFeatures == 2    \* largest len(self.X[0])
MaxWords == 3       \* largest len(self.hwords)
MaxLabels == 2      \* largest len(models)
MaxItems == 2       \* largest test_set.num_items

\* ------------------------------------------------------------- constants
DefaultNConstant == 3   \* n_constant=3
NSplits == 3            \* KFold(): n_splits defaults to 3
None == 0               \* guess = None (labels are numbered from 1)

\* the log-likelihoods a score call can return: two values far enough apart that
\* the better fit can outweigh the BIC penalty of one more state, or not
Scores == {-2, 0}

\* ---------------------------------------------------------------- floats
NegInf == [inf |-> -1, val |-> 0]
PosInf == [inf |-> 1, val |-> 0]
Real(v) == [inf |-> 0, val |-> v]

\* a < b on floats
Lt(a, b) == \/ a.inf < b.inf
            \/ a.inf = 0 /\ b.inf = 0 /\ a.val < b.val

\* a > b on floats
Gt(a, b) == Lt(b, a)

\* ------------------------------------------------- the adapter's answers
\* What a call into the adapter does: it raises, or it returns val.
Raise == [ok |-> FALSE, val |-> 0]
Ok(v) == [ok |-> TRUE, val |-> v]
Outcomes == {Raise} \cup {Ok(v) : v \in Scores}

\* a fitted model of num_states states, and the absent model
Model(num_states) == [fitted |-> TRUE, n_components |-> num_states]
NoModel == [fitted |-> FALSE, n_components |-> 0]

\* the empty dict
EmptyDict == [k \in {} |-> NegInf]

\* d[k] = v on a dict
DictSet(d, k, v) == [x \in DOMAIN d \cup {k} |-> IF x = k THEN v ELSE d[x]]

VARIABLES
    kind,            \* the call being run: a selector's select(), or recognize()
    pc,              \* where the call is
    self,            \* the selector's fields
    i,               \* the loop variable i
    fold,            \* CV: folds of candidate i already scored
    max_components,  \* best state count so far
    max_bic,         \* BIC: lowest BIC so far
    max_dic,         \* DIC: highest DIC so far
    max_score,       \* CV: highest fold score so far
    base_calls,      \* num_states of every base_model call, in order
    result,          \* what select() returned
    bic_log,         \* BIC: per candidate, what fit and score did
    dic_log,         \* DIC: per candidate, the dic the code computed (or none)
    dic_last,        \* DIC: what the adapter did for the last candidate
    fold_scores,     \* CV: per candidate, the fold scores the adapter returned
    failed,          \* CV: the candidates at which something raised
    models,          \* recognize: per label, whether its model is present
    num_items,       \* recognize: test_set.num_items
    word,            \* recognize: position in models.keys()
    max_l,           \* recognize: max_l
    guess,           \* recognize: guess
    log_l_values,    \* recognize: log_l_values
    probabilities,   \* recognize: probabilities
    guesses,         \* recognize: guesses
    log_l,           \* recognize: log_l
    answers          \* recognize: per item and label, what model.score did

selVars == <<self, fold, max_components, max_bic, max_dic, max_score,
             base_calls, result, bic_log, dic_log, dic_last, fold_scores, failed>>
recVars == <<models, num_items, word, max_l, guess, log_l, log_l_values,
             probabilities, guesses, answers>>
vars == <<kind, pc, i, selVars, recVars>>

\* ------------------------------------------------------ ModelSelector
\* __init__: the fields a selector reads
Selves(k) ==
    { [n_constant |-> nc, min_n_components |-> lo, max_n_components |-> hi,
       n_data_points |-> n, n_features |-> f, n_words |-> m, this_word |-> t,
       n_sequences |-> q] :
        nc \in (IF k = "Constant" THEN 1..(MaxStates + 1) ELSE {DefaultNConstant}),
        lo \in (IF k = "recognize" THEN {1} ELSE 1..MaxStates),
        hi \in (IF k = "recognize" THEN {1} ELSE 1..MaxStates),
        n \in (IF k = "BIC" THEN 1..MaxFrames ELSE {1}),
        f \in (IF k = "BIC" THEN 1..MaxFeatures ELSE {1}),
        m \in (IF k = "DIC" THEN 1..MaxWords ELSE {1}),
        t \in (IF k = "DIC" THEN 1..MaxWords ELSE {1}),
        q \in (IF k = "CV" THEN {NSplits - 1, NSplits} ELSE {NSplits}) }

\* base_model without its try/except: a failing fit propagates
base_model_unguarded(num_states, fit_ok) ==
    IF fit_ok THEN [raised |-> FALSE, value |-> Model(num_states)]
    ELSE [raised |-> TRUE, value |-> NoModel]

\* base_model(num_states): the fit, with a failure turned into None
base_model(num_states, fit_ok) ==
    IF fit_ok THEN [raised |-> FALSE, value |-> Model(num_states)]
    ELSE [raised |-> FALSE, value |-> NoModel]

\* return self.base_model(num_states)
Return(num_states) ==
    /\ \E fit_ok \in BOOLEAN :
          LET r == base_model(num_states, fit_ok) IN
          /\ pc' = IF r.raised THEN "raised" ELSE "done"
          /\ result' = r.value
    /\ base_calls' = Append(base_calls, num_states)

\* ----------------------------------------------------- SelectorConstant
\* a select() that keeps n_constant inside the search range
SelectorConstant_clamped(s) ==
    IF s.n_constant > s.max_n_components THEN s.max_n_components ELSE s.n_constant

\* best_num_components = self.n_constant
SelectorConstant_best(s) == s.n_constant

SelectorConstant_select ==
    /\ kind = "Constant" /\ pc = "init"
    /\ Return(SelectorConstant_best(self))
    /\ UNCHANGED <<kind, i, self, fold, max_components, max_bic, max_dic, max_score,
                   bic_log, dic_log, dic_last, fold_scores, failed, recVars>>

\* ---------------------------------------------------------- SelectorBIC
\* math.log(n), in thousandths
LnMilli(n) ==
    CASE n = 1 -> 0
      [] n = 2 -> 693
      [] n = 3 -> 1099
      [] n = 4 -> 1386
      [] n = 5 -> 1609
      [] n = 6 -> 1792
      [] n = 7 -> 1946
      [] OTHER -> 2079

\* p = i**2 + 2*n_features*i - 1
FreeParams(s, n) == (n * n) + (2 * s.n_features * n) - 1

\* bic = -2*log_l + p*log(n_data_points), in thousandths
Bic(s, n, logL) == (-2) * logL * 1000 + FreeParams(s, n) * LnMilli(s.n_data_points)

\* the loop body with  bic <= max_bic
SelectorBIC_body_le(s, n, fit_ok, score, best) ==
    IF fit_ok /\ score.ok
    THEN LET bic == Real(Bic(s, n, score.val)) IN
         IF ~Lt(best.max_bic, bic)
         THEN [max_bic |-> bic, max_components |-> n]
         ELSE best
    ELSE best

\* the start of select() with the default best taken from n_constant
SelectorBIC_start_nconstant(s) == [max_bic |-> PosInf, max_components |-> s.n_constant]

\* max_components = self.min_n_components; max_bic = math.inf
SelectorBIC_start(s) == [max_bic |-> PosInf, max_components |-> s.min_n_components]

\* one pass of the loop body for candidate n: try ... except: continue
SelectorBIC_body(s, n, fit_ok, score, best) ==
    IF fit_ok /\ score.ok
    THEN LET bic == Real(Bic(s, n, score.val)) IN
         IF Lt(bic, best.max_bic)
         THEN [max_bic |-> bic, max_components |-> n]
         ELSE best
    ELSE best

SelectorBIC_begin ==
    /\ kind = "BIC" /\ pc = "init"
    /\ LET b == SelectorBIC_start(self) IN
       /\ max_bic' = b.max_bic
       /\ max_components' = b.max_components
    /\ i' = self.min_n_components
    /\ pc' = "loop"
    /\ UNCHANGED <<kind, self, fold, max_dic, max_score, base_calls, result,
                   bic_log, dic_log, dic_last, fold_scores, failed, recVars>>

SelectorBIC_candidate ==
    /\ kind = "BIC" /\ pc = "loop" /\ i <= self.max_n_components
    /\ \E fit_ok \in BOOLEAN, score \in Outcomes :
          /\ ~fit_ok => score = Raise
          /\ LET b == SelectorBIC_body(self, i, fit_ok, score,
                         [max_bic |-> max_bic, max_components |-> max_components]) IN
             /\ max_bic' = b.max_bic
             /\ max_components' = b.max_components
          /\ bic_log' = DictSet(bic_log, i, [fit_ok |-> fit_ok, score |-> score])
    /\ i' = i + 1
    /\ UNCHANGED <<kind, pc, self, fold, max_dic, max_score, base_calls, result,
                   dic_log, dic_last, fold_scores, failed, recVars>>

SelectorBIC_return ==
    /\ kind = "BIC" /\ pc = "loop" /\ i > self.max_n_components
    /\ Return(max_components)
    /\ UNCHANGED <<kind, i, self, fold, max_components, max_bic, max_dic, max_score,
                   bic_log, dic_log, dic_last, fold_scores, failed, recVars>>

\* ---------------------------------------------------------- SelectorDIC
\* for key, (X, lengths) in self.hwords.items(): skip this_word, add the score
RECURSIVE SumOthers(_, _, _, _)
SumOthers(s, resp, key, word_score) ==
    IF key > s.n_words THEN Ok(word_score)
    ELSE IF key = s.this_word THEN SumOthers(s, resp, key + 1, word_score)
    ELSE IF resp[key].ok THEN SumOthers(s, resp, key + 1, word_score + resp[key].val)
    ELSE Raise

\* the sum taken over every key, this_word included
RECURSIVE SumAll(_, _, _, _)
SumAll(s, resp, key, word_score) ==
    IF key > s.n_words THEN Ok(word_score)
    ELSE IF resp[key].ok THEN SumAll(s, resp, key + 1, word_score + resp[key].val)
    ELSE Raise

\* the dic of candidate n with the target label's own data in the sum
SelectorDIC_dic_all(s, fit_ok, own, resp) ==
    IF ~(fit_ok /\ own.ok) THEN Raise
    ELSE LET word_score == SumAll(s, resp, 1, 0) IN
         IF ~word_score.ok THEN Raise
         ELSE IF s.n_words - 1 = 0 THEN Raise
         ELSE Ok((s.n_words - 1) * own.val - word_score.val)

\* dic = this_word_score - (1 / (len(self.hwords) - 1) * word_score), times
\* len(self.hwords) - 1; Raise when anything in the try block raises
SelectorDIC_dic(s, fit_ok, own, resp) ==
    IF ~(fit_ok /\ own.ok) THEN Raise
    ELSE LET word_score == SumOthers(s, resp, 1, 0) IN
         IF ~word_score.ok THEN Raise
         ELSE IF s.n_words - 1 = 0 THEN Raise
         ELSE Ok((s.n_words - 1) * own.val - word_score.val)

\* max_components = self.min_n_components; max_dic = -math.inf
SelectorDIC_start(s) == [max_dic |-> NegInf, max_components |-> s.min_n_components]

\* if dic > max_dic: ...; except: continue
SelectorDIC_body(n, dic, best) ==
    IF dic.ok /\ Gt(Real(dic.val), best.max_dic)
    THEN [max_dic |-> Real(dic.val), max_components |-> n]
    ELSE best

\* The answers the adapter can give for candidate i: a score is asked only when
\* the fit and every earlier score succeeded (what is not asked is written
\* Raise), and the target label's data in hwords is the data of self.X.
DICAnswers(s, fit_ok, own, resp) ==
    /\ ~fit_ok => own = Raise
    /\ resp[s.this_word] = own
    /\ \A k \in 1..s.n_words :
          (k # s.this_word /\ resp[k].ok) =>
              /\ own.ok
              /\ \A j \in 1..(k - 1) : j # s.this_word => resp[j].ok

SelectorDIC_begin ==
    /\ kind = "DIC" /\ pc = "init"
    /\ LET b == SelectorDIC_start(self) IN
       /\ max_dic' = b.max_dic
       /\ max_components' = b.max_components
    /\ i' = self.min_n_components
    /\ pc' = "loop"
    /\ UNCHANGED <<kind, self, fold, max_bic, max_score, base_calls, result,
                   bic_log, dic_log, dic_last, fold_scores, failed, recVars>>

SelectorDIC_candidate ==
    /\ kind = "DIC" /\ pc = "loop" /\ i <= self.max_n_components
    /\ \E fit_ok \in BOOLEAN, own \in Outcomes, resp \in [1..self.n_words -> Outcomes] :
          /\ DICAnswers(self, fit_ok, own, resp)
          /\ LET dic == SelectorDIC_dic(self, fit_ok, own, resp)
                 b == SelectorDIC_body(i, dic,
                         [max_dic |-> max_dic, max_components |-> max_components]) IN
             /\ max_dic' = b.max_dic
             /\ max_components' = b.max_components
             /\ dic_log' = DictSet(dic_log, i, dic)
          /\ dic_last' = [fit_ok |-> fit_ok, own |-> own, resp |-> resp]
    /\ i' = i + 1
    /\ UNCHANGED <<kind, pc, self, fold, max_bic, max_score, base_calls, result,
                   bic_log, fold_scores, failed, recVars>>

SelectorDIC_return ==
    /\ kind = "DIC" /\ pc = "loop" /\ i > self.max_n_components
    /\ Return(max_components)
    /\ UNCHANGED <<kind, i, self, fold, max_components, max_bic, max_dic, max_score,
                   bic_log, dic_log, dic_last, fold_scores, failed, recVars>>

\* ----------------------------------------------------------- SelectorCV
\* KFold.split(self.sequences) raises when there are fewer sequences than folds
KFoldRaises(s) == s.n_sequences < NSplits

\* max_components = self.min_n_components; max_score = -math.inf
SelectorCV_start(s) == [max_score |-> NegInf, max_components |-> s.min_n_components]

\* the fold body with  log_l >= max_score
SelectorCV_body_ge(n, logL, best) ==
    IF ~Lt(Real(logL), best.max_score)
    THEN [max_score |-> Real(logL), max_components |-> n]
    ELSE best

\* if log_l > max_score: max_score = log_l; max_components = i
SelectorCV_body(n, logL, best) ==
    IF Gt(Real(logL), best.max_score)
    THEN [max_score |-> Real(logL), max_components |-> n]
    ELSE best

\* the scores candidate c's folds returned so far
Observed(c) == IF c \in DOMAIN fold_scores THEN fold_scores[c] ELSE {}

SelectorCV_begin ==
    /\ kind = "CV" /\ pc = "init"
    /\ LET b == SelectorCV_start(self) IN
       /\ max_score' = b.max_score
       /\ max_components' = b.max_components
    /\ i' = self.min_n_components
    /\ fold' = 0
    /\ pc' = "loop"
    /\ UNCHANGED <<kind, self, max_bic, max_dic, base_calls, result,
                   bic_log, dic_log, dic_last, fold_scores, failed, recVars>>

\* one fold of candidate i: split, combine, fit, score, compare; a raise
\* anywhere leaves the fold loop for the next candidate (except: continue).
\* fit_ok is FALSE when the split, the combining or the fit raises.
SelectorCV_fold ==
    /\ kind = "CV" /\ pc = "loop" /\ i <= self.max_n_components
    /\ \E fit_ok \in BOOLEAN, score \in Outcomes :
          /\ KFoldRaises(self) => ~fit_ok
          /\ ~fit_ok => score = Raise
          /\ IF fit_ok /\ score.ok
             THEN /\ LET b == SelectorCV_body(i, score.val,
                               [max_score |-> max_score, max_components |-> max_components]) IN
                     /\ max_score' = b.max_score
                     /\ max_components' = b.max_components
                  /\ fold_scores' = DictSet(fold_scores, i, Observed(i) \cup {score.val})
                  /\ IF fold + 1 = NSplits
                     THEN i' = i + 1 /\ fold' = 0
                     ELSE i' = i /\ fold' = fold + 1
                  /\ UNCHANGED failed
             ELSE /\ failed' = failed \cup {i}
                  /\ i' = i + 1
                  /\ fold' = 0
                  /\ UNCHANGED <<max_score, max_components, fold_scores>>
    /\ UNCHANGED <<kind, pc, self, max_bic, max_dic, base_calls, result,
                   bic_log, dic_log, dic_last, recVars>>

SelectorCV_return ==
    /\ kind = "CV" /\ pc = "loop" /\ i > self.max_n_components
    /\ Return(max_components)
    /\ UNCHANGED <<kind, i, self, fold, max_components, max_bic, max_dic, max_score,
                   bic_log, dic_log, dic_last, fold_scores, failed, recVars>>

\* ------------------------------------------------------------ recognize
\* the collections recognize() can be given: per label, in the order of
\* models.keys(), whether the label's model is present (not None)
ModelCollections == UNION { [1..n -> BOOLEAN] : n \in 0..MaxLabels }

\* the word body with log_l left as the previous iteration set it
recognize_score_stale(present, ans, prev_log_l) ==
    IF present /\ ans.ok THEN Real(ans.val) ELSE prev_log_l

\* log_l = float("-inf"); try: log_l = model.score(x, lengths); except: pass
recognize_score(present, ans, prev_log_l) ==
    IF present /\ ans.ok THEN Real(ans.val) ELSE NegInf

\* the rest of the word body with the entry written only for a finite score
recognize_record_scored(w, l, st) ==
    [log_l_values |-> IF l.inf = 0 THEN DictSet(st.log_l_values, w, l) ELSE st.log_l_values,
     guess |-> IF Gt(l, st.max_l) THEN w ELSE st.guess,
     max_l |-> IF Gt(l, st.max_l) THEN l ELSE st.max_l]

\* the rest of the word body with  log_l >= max_l
recognize_record_ge(w, l, st) ==
    [log_l_values |-> DictSet(st.log_l_values, w, l),
     guess |-> IF ~Lt(l, st.max_l) THEN w ELSE st.guess,
     max_l |-> IF ~Lt(l, st.max_l) THEN l ELSE st.max_l]

\* log_l_values[word] = log_l; if log_l > max_l: guess = word; max_l = log_l
recognize_record(w, l, st) ==
    [log_l_values |-> DictSet(st.log_l_values, w, l),
     guess |-> IF Gt(l, st.max_l) THEN w ELSE st.guess,
     max_l |-> IF Gt(l, st.max_l) THEN l ELSE st.max_l]

\* probabilities = []; guesses = []
recognize_begin ==
    /\ kind = "recognize" /\ pc = "init"
    /\ probabilities' = <<>>
    /\ guesses' = <<>>
    /\ i' = 0
    /\ pc' = "item"
    /\ UNCHANGED <<kind, selVars, models, num_items, word, max_l, guess, log_l,
                   log_l_values, answers>>

\* for i in range(test_set.num_items): max_l = -inf; guess = None; log_l_values = dict()
recognize_item ==
    /\ kind = "recognize" /\ pc = "item" /\ i < num_items
    /\ max_l' = NegInf
    /\ guess' = None
    /\ log_l_values' = EmptyDict
    /\ word' = 1
    /\ pc' = "word"
    /\ UNCHANGED <<kind, i, selVars, models, num_items, log_l, probabilities,
                   guesses, answers>>

\* for word in models.keys(): one pass of the body
recognize_word ==
    /\ kind = "recognize" /\ pc = "word" /\ word <= Len(models)
    /\ \E ans \in Outcomes :
          /\ ~models[word] => ans = Raise
          /\ LET l == recognize_score(models[word], ans, log_l)
                 st == recognize_record(word, l,
                          [log_l_values |-> log_l_values, guess |-> guess, max_l |-> max_l]) IN
             /\ log_l' = l
             /\ log_l_values' = st.log_l_values
             /\ guess' = st.guess
             /\ max_l' = st.max_l
          /\ answers' = DictSet(answers, <<i, word>>, ans)
    /\ word' = word + 1
    /\ UNCHANGED <<kind, pc, i, selVars, models, num_items, probabilities, guesses>>

\* guesses.append(guess); probabilities.append(log_l_values)
recognize_append ==
    /\ kind = "recognize" /\ pc = "word" /\ word > Len(models)
    /\ guesses' = Append(guesses, guess)
    /\ probabilities' = Append(probabilities, log_l_values)
    /\ i' = i + 1
    /\ pc' = "item"
    /\ UNCHANGED <<kind, selVars, models, num_items, word, max_l, guess, log_l,
                   log_l_values, answers>>

\* return probabilities, guesses
recognize_return ==
    /\ kind = "recognize" /\ pc = "item" /\ i >= num_items
    /\ pc' = "done"
    /\ UNCHANGED <<kind, i, selVars, recVars>>

\* ------------------------------------------------------------------ Init
Kinds == {"Constant", "BIC", "DIC", "CV", "recognize"}

Init ==
    /\ kind \in Kinds
    /\ pc = "init"
    /\ self \in Selves(kind)
    /\ self.min_n_components <= self.max_n_components
    /\ self.this_word <= self.n_words
    /\ i = 0
    /\ fold = 0
    /\ max_components = 0
    /\ max_bic = PosInf
    /\ max_dic = NegInf
    /\ max_score = NegInf
    /\ base_calls = <<>>
    /\ result = NoModel
    /\ bic_log = EmptyDict
    /\ dic_log = EmptyDict
    /\ dic_last = EmptyDict
    /\ fold_scores = EmptyDict
    /\ failed = {}
    /\ models \in (IF kind = "recognize" THEN ModelCollections ELSE {<<>>})
    /\ num_items \in (IF kind = "recognize" THEN 0..MaxItems ELSE {0})
    /\ word = 0
    /\ max_l = NegInf
    /\ guess = None
    /\ log_l = NegInf
    /\ log_l_values = EmptyDict
    /\ probabilities = <<>>
    /\ guesses = <<>>
    /\ answers = EmptyDict

Next ==
    \/ SelectorConstant_select
    \/ SelectorBIC_begin
    \/ SelectorBIC_candidate
    \/ SelectorBIC_return
    \/ SelectorDIC_begin
    \/ SelectorDIC_candidate
    \/ SelectorDIC_return
    \/ SelectorCV_begin
    \/ SelectorCV_fold
    \/ SelectorCV_return
    \/ recognize_begin
    \/ recognize_item
    \/ recognize_word
    \/ recognize_append
    \/ recognize_return

Spec == Init /\ [][Next]_vars

\* ================================================================ claims
Candidates == self.min_n_components..self.max_n_components
Selecting == kind \in {"Constant", "BIC", "DIC", "CV"}
Searching == kind \in {"BIC", "DIC", "CV"}
Labels == 1..Len(models)

\* C1: whatever the adapter and the fold splitter do (fits, scores and splits
\* raising, every candidate failing, the final re-fit failing), no exception
\* leaves select() or recognize(): the call always has a next step until it has
\* returned, select() returns a fitted model or None, and recognize() returns
\* its two lists.
C1_NeverRaises ==
    /\ pc # "raised"
    /\ pc # "done" => ENABLED Next
    /\ (pc = "done" /\ Selecting) =>
          /\ base_calls # <<>>
          /\ result \in {NoModel, Model(base_calls[Len(base_calls)])}
    /\ (pc = "done" /\ kind = "recognize") =>
          /\ Len(probabilities) = num_items
          /\ Len(guesses) = num_items

\* C1's case: CV, every candidate failed and the final re-fit failed too
C1_Witness ==
    /\ kind = "CV" /\ pc = "done"
    /\ self.min_n_components < self.max_n_components
    /\ failed = Candidates
    /\ result = NoModel

\* C2: for BIC, DIC and CV the only base_model call of select() is the final
\* one, and its state count lies in [min_n_components, max_n_components].
C2_WinnerInRange ==
    Searching =>
        /\ pc # "done" => base_calls = <<>>
        /\ pc = "done" => /\ Len(base_calls) = 1
                          /\ base_calls[1] \in Candidates

\* C2's case: a search in which a candidate failed and the last candidate won
C2_Witness ==
    /\ kind = "BIC" /\ pc = "done"
    /\ self.min_n_components < self.max_n_components
    /\ \E c \in Candidates : ~bic_log[c].fit_ok
    /\ base_calls = <<self.max_n_components>>

\* the candidates tried so far whose fit and score both succeeded
BicScored == {c \in DOMAIN bic_log : bic_log[c].fit_ok /\ bic_log[c].score.ok}

\* BIC = -2*L + (i^2 + 2*f*i - 1)*ln(N) of a scored candidate, in thousandths
BicOf(c) ==
    (0 - 2000) * bic_log[c].score.val
        + ((c * c) + (2 * self.n_features * c) - 1) * LnMilli(self.n_data_points)

\* the smallest state count of minimal BIC among the scored candidates, and
\* min_n_components when there is none
BicWinner ==
    IF BicScored = {} THEN self.min_n_components
    ELSE CHOOSE c \in BicScored :
            \A d \in BicScored : BicOf(c) < BicOf(d) \/ (BicOf(c) = BicOf(d) /\ c <= d)

\* C3: after every candidate tried, the best state count of SelectorBIC is the
\* smallest one of minimal BIC among the candidates whose fit and score
\* succeeded (min_n_components if there is none), so a failing candidate never
\* changes it and of two scored candidates with equal likelihood the larger
\* never wins; select() re-fits at that state count.
C3_BICWinner ==
    (kind = "BIC" /\ pc # "init") =>
        /\ max_components = BicWinner
        /\ \A c, d \in BicScored :
              (c < d /\ bic_log[c].score.val = bic_log[d].score.val) => max_components # d
        /\ pc = "done" => base_calls = <<BicWinner>>

\* C3's case: a failed candidate, two scored ones, and a winner that is not the
\* default
C3_Witness ==
    /\ kind = "BIC" /\ pc = "done"
    /\ \E c \in Candidates : c \notin BicScored
    /\ Cardinality(BicScored) >= 2
    /\ base_calls[1] > self.min_n_components
    /\ \E c, d \in BicScored : c # d /\ BicOf(c) = BicOf(d)

\* the labels of the shared mapping other than the target label
OtherWords == (1..self.n_words) \ {self.this_word}

\* the sum of the scores f gives the labels of S
RECURSIVE SumOver(_, _)
SumOver(S, f) ==
    IF S = {} THEN 0
    ELSE LET k == CHOOSE x \in S : TRUE IN f[k].val + SumOver(S \ {k}, f)

\* DIC of the last candidate from what the adapter answered, times M - 1:
\* (M-1)*L_own - sum over the other labels; none when anything failed or M = 1
DicOfAnswers ==
    IF /\ dic_last.fit_ok
       /\ dic_last.own.ok
       /\ \A k \in OtherWords : dic_last.resp[k].ok
       /\ self.n_words # 1
    THEN Ok((self.n_words - 1) * dic_last.own.val - SumOver(OtherWords, dic_last.resp))
    ELSE Raise

\* the candidates tried so far that have a DIC
DicScored == {c \in DOMAIN dic_log : dic_log[c].ok}

\* C4: the DIC the selector gives a candidate is L_own - (1/(M-1)) * (sum of
\* the candidate's log-likelihoods on every label but the target), and exists
\* only when the fit, the own score and every other-label score succeeded and
\* M > 1; after every candidate tried the best state count maximises DIC over
\* the candidates that have one (min_n_components if none has); select()
\* re-fits there.
C4_DICWinner ==
    (kind = "DIC" /\ pc # "init") =>
        /\ dic_log # EmptyDict => dic_log[i - 1] = DicOfAnswers
        /\ IF DicScored = {} THEN max_components = self.min_n_components
           ELSE /\ max_components \in DicScored
                /\ \A d \in DicScored : dic_log[max_components].val >= dic_log[d].val
        /\ self.n_words = 1 => DicScored = {}
        /\ pc = "done" => base_calls = <<max_components>>

\* C4's case: three labels, a candidate skipped, a later candidate winning on
\* a DIC to which the other labels contribute
C4_Witness ==
    /\ kind = "DIC" /\ pc = "done"
    /\ self.n_words = 3
    /\ \E c \in Candidates : c \notin DicScored
    /\ Cardinality(DicScored) >= 2
    /\ base_calls[1] > self.min_n_components
    /\ dic_last.fit_ok /\ dic_last.own.ok
    /\ \A k \in OtherWords : dic_last.resp[k] = Ok(-2)

\* every fold score observed so far
AllObserved == UNION {Observed(c) : c \in Candidates}

\* the largest element of a non-empty set of integers
MaxOf(S) == CHOOSE x \in S : \A y \in S : y <= x

\* the candidates that are given a set of fold scores by obs: the first of
\* those holding the highest score, min_n_components when there is no score
FirstHolder(obs) ==
    LET all == UNION {obs[c] : c \in DOMAIN obs} IN
    IF all = {} THEN self.min_n_components
    ELSE CHOOSE c \in DOMAIN obs :
            /\ MaxOf(all) \in obs[c]
            /\ \A d \in DOMAIN obs : MaxOf(all) \in obs[d] => c <= d

Recorded(ans) == IF ans.ok THEN Real(ans.val) ELSE NegInf

\* w is the first label holding the maximum of the score map d
FirstMax(d, w) ==
    /\ w \in DOMAIN d
    /\ \A x \in DOMAIN d : ~Gt(d[x], d[w])
    /\ \A x \in DOMAIN d : (x < w) => Lt(d[x], d[w])

\* C6 as stated: for a non-empty collection every guess is the first label
\* holding the maximum of the item's score map.
C6_GuessIsArgmax ==
    (kind = "recognize" /\ pc = "done" /\ Labels # {}) =>
        \A k \in 1..Len(guesses) : FirstMax(probabilities[k], guesses[k])

\* C6 amended: for a non-empty collection the guess is the first label holding
\* the maximum of the item's score map whenever some label scored above
\* negative infinity, and None when every entry is negative infinity.
C6_GuessIsArgmaxOrNone ==
    (kind = "recognize" /\ Labels # {}) =>
        \A k \in 1..Len(guesses) :
            IF \E w \in DOMAIN probabilities[k] : Gt(probabilities[k][w], NegInf)
            THEN FirstMax(probabilities[k], guesses[k])
            ELSE guesses[k] = None

\* C6's case: two labels tie on a finite maximum and the first is the guess,
\* and for another item the second label scores higher and is the guess
C6_Witness ==
    /\ kind = "recognize" /\ pc = "done"
    /\ Len(models) = 2 /\ Len(guesses) = 2
    /\ probabilities[1][1] = Real(0) /\ probabilities[1][2] = Real(0)
    /\ guesses[1] = 1
    /\ probabilities[2][1] = Real(-2) /\ probabilities[2][2] = Real(0)
    /\ guesses[2] = 2

\* C7: recognize() returns one guess and one score map per test item, entry i
\* built from the scores of test item i, and every map has exactly the labels
\* of the collection as keys, whether or not scoring succeeded.
C7_Aligned ==
    kind = "recognize" =>
        /\ Len(guesses) = Len(probabilities)
        /\ pc = "done" => Len(guesses) = num_items
        /\ \A k \in 1..Len(probabilities) :
              /\ DOMAIN probabilities[k] = Labels
              /\ \A w \in Labels :
                    (probabilities[k][w].inf = 0) =>
                        probabilities[k][w].val = answers[<<k - 1, w>>].val
              /\ guesses[k] \in Labels \cup {None}
              /\ guesses[k] \in Labels =>
                    \A w \in Labels : ~Gt(probabilities[k][w], probabilities[k][guesses[k]])

\* C7's case: two items, two labels, one score failed and the others differ
C7_Witness ==
    /\ kind = "recognize" /\ pc = "done"
    /\ num_items = 2 /\ Len(models) = 2
    /\ answers[<<0, 1>>] = Raise
    /\ answers[<<0, 2>>] = Ok(-2)
    /\ answers[<<1, 1>>] = Ok(0)
    /\ answers[<<1, 2>>] = Raise

\* C8: every recorded score depends on its own scoring call alone: it is
\* negative infinity when that call failed (or the model is absent) and the
\* returned log-likelihood otherwise, whatever happened to the other labels
\* and items; and every label of every item is scored before recognize()
\* returns.
C8_FailureIsLocal ==
    kind = "recognize" =>
        /\ \A k \in 1..Len(probabilities) : \A w \in DOMAIN probabilities[k] :
              /\ <<k - 1, w>> \in DOMAIN answers
              /\ probabilities[k][w] = Recorded(answers[<<k - 1, w>>])
        /\ pc = "word" =>
              \A w \in DOMAIN log_l_values :
                  log_l_values[w] = Recorded(answers[<<i, w>>])
        /\ pc = "done" =>
              DOMAIN answers = {<<k, w>> : k \in 0..(num_items - 1), w \in Labels}

\* C8's case: label 1 of item 0 scored 0, then label 2 failed although its
\* model is present, and the next item was scored normally
C8_Witness ==
    /\ kind = "recognize" /\ pc = "done"
    /\ num_items = 2 /\ Len(models) = 2
    /\ models[2]
    /\ answers[<<0, 1>>] = Ok(0)
    /\ answers[<<0, 2>>] = Raise
    /\ probabilities[1][2] = NegInf
    /\ answers[<<1, 1>>] = Ok(-2)
    /\ answers[<<1, 2>>] = Ok(0)

\* C9: SelectorConstant.select() makes exactly one base_model call, at
\* n_constant states whatever the search range is, and returns its result.
C9_ConstantFit ==
    kind = "Constant" =>
        /\ pc = "init" => base_calls = <<>>
        /\ pc = "done" => /\ base_calls = <<self.n_constant>>
                          /\ result \in {NoModel, Model(self.n_constant)}

\* C9's case: n_constant above the search range, and the fit succeeded
C9_Witness ==
    /\ kind = "Constant" /\ pc = "done"
    /\ self.n_constant > self.max_n_components
    /\ result = Model(self.n_constant)

\* C10 as stated: a candidate at which something raised does not compete, so
\* SelectorCV re-fits at the state count the search picks from the candidates
\* at which nothing raised.
C10_FailedCandidateSkipped ==
    (kind = "CV" /\ pc = "done") =>
        base_calls = <<FirstHolder([c \in Candidates \ failed |-> Observed(c)])>>

====
